---- MODULE Spec2Model ----
(***************************************************************************)
(* Model of the reminder / due-check scheduling subsystem and the periodic *)
(* mail synchronisation job of the SERINA backend:                         *)
(*   backend/reminder_service.py   the reminder store and its operations   *)
(*   backend/scheduler_service.py  the cycle (_periodic_email_fetch_job)   *)
(*                                 and the start/stop lifecycle            *)
(*   backend/email_service.py      get_email_service / fetch_emails        *)
(***************************************************************************)
EXTENDS Integers, Sequences, FiniteSets, TLC

(***************************************************************************)
(* Bounds of the model.                                                    *)
(***************************************************************************)
\* The clock runs over 0..MaxTime (one unit = one second).
MaxTime == 2
\* Number of reminder ids (uuid4 values) add_reminder may generate.
MaxReminders == 2
\* History counters saturate here.
MaxRuns == 2
\* Provider message ids are 1..MaxMailIds, each in versions 1..MaxVersions.
MaxMailIds == 2
MaxVersions == 2
\* Longest batch a fetch returns in the model.
MaxBatch == 2

(***************************************************************************)
(* Optional values: None is the empty set, Some(v) the singleton.          *)
(***************************************************************************)
None == {}
Some(v) == {v}
The(o) == CHOOSE v \in o : TRUE
Opt(S) == {None} \cup {Some(v) : v \in S}

Min(a, b) == IF a <= b THEN a ELSE b

(***************************************************************************)
(* datetime values: a wall-clock reading and a tzinfo, which is either     *)
(* absent (a naive datetime) or timezone.utc.                              *)
(***************************************************************************)
Walls == 0..MaxTime
Utc(w) == [wall |-> w, tz |-> "utc"]
Naive(w) == [wall |-> w, tz |-> "naive"]

\* datetime.replace(tzinfo=timezone.utc): same wall-clock reading, now aware.
ReplaceTzUtc(dt) == [dt EXCEPT !.tz = "utc"]

\* Mutant of AssumeUtc: the guard left out, a naive datetime stays naive.
AssumeUtcMissing(dt) == dt

\* The guard "if x.tzinfo is None: x = x.replace(tzinfo=timezone.utc)".
AssumeUtc(dt) == IF dt.tz = "naive" THEN ReplaceTzUtc(dt) ELSE dt

\* a <= b on datetimes: Python raises TypeError when exactly one is naive.
DtComparable(a, b) == (a.tz = "naive") <=> (b.tz = "naive")
DtLe(a, b) == a.wall <= b.wall

(***************************************************************************)
(* Python dict (insertion ordered) as a sequence of entries keyed by .id.  *)
(***************************************************************************)
Keys(d) == {d[i].id : i \in 1..Len(d)}
HasKey(d, k) == k \in Keys(d)
IndexOf(d, k) == CHOOSE i \in 1..Len(d) : d[i].id = k
DictGet(d, k) == d[IndexOf(d, k)]
\* d[k] = v : replaces the value in place, or appends a new entry.
DictSet(d, v) ==
    IF HasKey(d, v.id)
    THEN [d EXCEPT ![IndexOf(d, v.id)] = v]
    ELSE Append(d, v)
\* del d[k]
DictDel(d, k) == SelectSeq(d, LAMBDA e : e.id # k)

(***************************************************************************)
(* reminder_service.py: the Reminder model and the pure part of each       *)
(* operation on _reminders_store.                                          *)
(***************************************************************************)
\* Reminder(email_id=..., reminder_time=..., message=...): the defaults give
\* the id (uuid4), is_active = True and snooze_until = None; snooze_until is
\* then not in model_fields_set. (created_at is not read by any operation
\* and is left out of the record.)
NewReminder(id, email_id, reminder_time, message) ==
    [id |-> id,
     email_id |-> email_id,
     reminder_time |-> reminder_time,
     message |-> message,
     is_active |-> TRUE,
     snooze_until |-> None,
     fields_set_snooze |-> FALSE]

\* add_reminder: a naive reminder_time is taken as UTC, the new Reminder is
\* stored under its id.
AddReminderStore(store, id, reminder_time, email_id, message) ==
    DictSet(store, NewReminder(id, email_id, AssumeUtc(reminder_time), message))

EmptyData == [f \in {} |-> f]

\* Mutants of UpdateData: (1) the snooze branch sets snooze_until only;
\* (2) the snooze branch does not force is_active; (3) "if is_active:" for
\* "if is_active is not None:".
UpdateDataSnoozeOnly(reminder, reminder_time, message, is_active, snooze_until) ==
    LET rt == IF reminder_time # None
              THEN [reminder_time |-> AssumeUtc(The(reminder_time))]
              ELSE EmptyData
        msg == IF message # None THEN [message |-> message] ELSE EmptyData
        act == IF is_active # None THEN [is_active |-> The(is_active)] ELSE EmptyData
        snz == IF snooze_until # None
               THEN [snooze_until |-> Some(AssumeUtc(The(snooze_until))),
                     is_active |-> TRUE]
               ELSE IF ~reminder.fields_set_snooze \/ reminder.snooze_until # None
                    THEN [snooze_until |-> None]
                    ELSE EmptyData
    IN  snz @@ act @@ msg @@ rt
UpdateDataSnoozeKeepsActive(reminder, reminder_time, message, is_active, snooze_until) ==
    LET rt == IF reminder_time # None
              THEN [reminder_time |-> AssumeUtc(The(reminder_time))]
              ELSE EmptyData
        msg == IF message # None THEN [message |-> message] ELSE EmptyData
        act == IF is_active # None THEN [is_active |-> The(is_active)] ELSE EmptyData
        snz == IF snooze_until # None
               THEN [snooze_until |-> Some(AssumeUtc(The(snooze_until))),
                     reminder_time |-> AssumeUtc(The(snooze_until))]
               ELSE IF ~reminder.fields_set_snooze \/ reminder.snooze_until # None
                    THEN [snooze_until |-> None]
                    ELSE EmptyData
    IN  snz @@ act @@ msg @@ rt
UpdateDataTruthyActive(reminder, reminder_time, message, is_active, snooze_until) ==
    LET rt == IF reminder_time # None
              THEN [reminder_time |-> AssumeUtc(The(reminder_time))]
              ELSE EmptyData
        msg == IF message # None THEN [message |-> message] ELSE EmptyData
        act == IF is_active = Some(TRUE) THEN [is_active |-> TRUE] ELSE EmptyData
        snz == IF snooze_until # None
               THEN [snooze_until |-> Some(AssumeUtc(The(snooze_until))),
                     reminder_time |-> AssumeUtc(The(snooze_until)),
                     is_active |-> TRUE]
               ELSE IF ~reminder.fields_set_snooze \/ reminder.snooze_until # None
                    THEN [snooze_until |-> None]
                    ELSE EmptyData
    IN  snz @@ act @@ msg @@ rt

\* Mutant of UpdateData: (4) a new reminder_time arms the reminder again.
UpdateDataRearmsOnReschedule(reminder, reminder_time, message, is_active, snooze_until) ==
    LET rt == IF reminder_time # None
              THEN [reminder_time |-> AssumeUtc(The(reminder_time)), is_active |-> TRUE]
              ELSE EmptyData
        msg == IF message # None THEN [message |-> message] ELSE EmptyData
        act == IF is_active # None THEN [is_active |-> The(is_active)] ELSE EmptyData
        snz == IF snooze_until # None
               THEN [snooze_until |-> Some(AssumeUtc(The(snooze_until))),
                     reminder_time |-> AssumeUtc(The(snooze_until)),
                     is_active |-> TRUE]
               ELSE IF ~reminder.fields_set_snooze \/ reminder.snooze_until # None
                    THEN [snooze_until |-> None]
                    ELSE EmptyData
    IN  snz @@ act @@ msg @@ rt

\* Mutant of UpdateData: a call without snooze_until leaves the stored
\* snooze_until as it is.
UpdateDataKeepsSnooze(reminder, reminder_time, message, is_active, snooze_until) ==
    LET rt == IF reminder_time # None
              THEN [reminder_time |-> AssumeUtc(The(reminder_time))]
              ELSE EmptyData
        msg == IF message # None THEN [message |-> message] ELSE EmptyData
        act == IF is_active # None THEN [is_active |-> The(is_active)] ELSE EmptyData
        snz == IF snooze_until # None
               THEN [snooze_until |-> Some(AssumeUtc(The(snooze_until))),
                     reminder_time |-> AssumeUtc(The(snooze_until)),
                     is_active |-> TRUE]
               ELSE EmptyData
    IN  snz @@ act @@ msg @@ rt

\* update_reminder, lines 77-103: the update_data dict. Later assignments to
\* the same key win, so the snooze branch overrides reminder_time/is_active.
UpdateData(reminder, reminder_time, message, is_active, snooze_until) ==
    LET rt == IF reminder_time # None
              THEN [reminder_time |-> AssumeUtc(The(reminder_time))]
              ELSE EmptyData
        msg == IF message # None THEN [message |-> message] ELSE EmptyData
        act == IF is_active # None THEN [is_active |-> The(is_active)] ELSE EmptyData
        snz == IF snooze_until # None
               THEN [snooze_until |-> Some(AssumeUtc(The(snooze_until))),
                     reminder_time |-> AssumeUtc(The(snooze_until)),
                     is_active |-> TRUE]
               ELSE IF ~reminder.fields_set_snooze \/ reminder.snooze_until # None
                    THEN [snooze_until |-> None]
                    ELSE EmptyData
    IN  snz @@ act @@ msg @@ rt

\* Mutant of ModelCopy: the copy is built as a new Reminder, so a field the
\* update does not name takes its default; email_id is the one seen here.
ModelCopyRebuilt(reminder, update_data) ==
    [f \in DOMAIN reminder |->
        IF f = "fields_set_snooze"
        THEN reminder.fields_set_snooze \/ "snooze_until" \in DOMAIN update_data
        ELSE IF f \in DOMAIN update_data THEN update_data[f]
        ELSE IF f = "email_id" THEN None
        ELSE reminder[f]]

\* reminder.model_copy(update=update_data): the fields of update_data
\* replace the old ones and their names join model_fields_set.
ModelCopy(reminder, update_data) ==
    [f \in DOMAIN reminder |->
        IF f = "fields_set_snooze"
        THEN reminder.fields_set_snooze \/ "snooze_until" \in DOMAIN update_data
        ELSE IF f \in DOMAIN update_data THEN update_data[f] ELSE reminder[f]]

\* update_reminder, lines 105-109: store the copy when update_data is not empty.
WriteUpdate(store, reminder, update_data) ==
    IF DOMAIN update_data # {}
    THEN DictSet(store, ModelCopy(reminder, update_data))
    ELSE store

\* Mutant of UpdateReminderStore: an unknown id is stored as a new reminder.
UpdateReminderStoreUpsert(store, id, reminder_time, message, is_active, snooze_until) ==
    IF ~HasKey(store, id)
    THEN IF reminder_time # None
         THEN DictSet(store, NewReminder(id, None, AssumeUtc(The(reminder_time)),
                                         message))
         ELSE store
    ELSE LET reminder == DictGet(store, id)
         IN  WriteUpdate(store, reminder,
                UpdateData(reminder, reminder_time, message, is_active, snooze_until))

\* update_reminder as one uninterrupted call.
UpdateReminderStore(store, id, reminder_time, message, is_active, snooze_until) ==
    IF ~HasKey(store, id)
    THEN store
    ELSE LET reminder == DictGet(store, id)
         IN  WriteUpdate(store, reminder,
                UpdateData(reminder, reminder_time, message, is_active, snooze_until))

\* Mutant of DeleteReminderStore: only a reminder that is active is removed.
DeleteReminderStoreActiveOnly(store, id) ==
    IF HasKey(store, id) /\ DictGet(store, id).is_active
    THEN DictDel(store, id)
    ELSE store

\* delete_reminder
DeleteReminderStore(store, id) ==
    IF HasKey(store, id) THEN DictDel(store, id) ELSE store

\* get_reminder: _reminders_store.get(reminder_id).
GetReminder(store, id) ==
    IF HasKey(store, id) THEN Some(DictGet(store, id)) ELSE None

\* What update_reminder returns: None for an unknown id (line 75), the
\* stored copy (line 109), or the reminder as it was when update_data is
\* empty (line 112).
UpdateReminderResult(store, id, reminder_time, message, is_active, snooze_until) ==
    IF ~HasKey(store, id)
    THEN None
    ELSE LET reminder == DictGet(store, id)
             update_data == UpdateData(reminder, reminder_time, message,
                                       is_active, snooze_until)
         IN  IF DOMAIN update_data # {}
             THEN Some(ModelCopy(reminder, update_data))
             ELSE Some(reminder)

\* What delete_reminder returns.
DeleteReminderResult(store, id) == HasKey(store, id)

\* get_all_reminders: the values of the dict in its (insertion) order, the
\* inactive ones filtered out when active_only.
GetAllReminders(store, active_only) ==
    IF active_only THEN SelectSeq(store, LAMBDA r : r.is_active) ELSE store

\* Mutants of IsDue: the test without "reminder.is_active and", and with <
\* for <=.
IsDueIgnoringActive(reminder, nowdt) == DtLe(reminder.reminder_time, nowdt)
IsDueStrict(reminder, nowdt) ==
    reminder.is_active /\ reminder.reminder_time.wall < nowdt.wall

\* The test of check_due_reminders, line 128, on one reminder; "and" does
\* not evaluate the comparison of an inactive reminder.
IsDue(reminder, nowdt) ==
    reminder.is_active /\ DtLe(reminder.reminder_time, nowdt)
DueRaises(reminder, nowdt) ==
    reminder.is_active /\ ~DtComparable(reminder.reminder_time, nowdt)

\* check_due_reminders: the scan of _reminders_store.values() in order.
\* raised: the comparison raised TypeError; due: the list built so far.
RECURSIVE CheckDueFrom(_, _, _, _)
CheckDueFrom(store, i, nowdt, due) ==
    IF i > Len(store)
    THEN [raised |-> FALSE, due |-> due]
    ELSE IF DueRaises(store[i], nowdt)
         THEN [raised |-> TRUE, due |-> due]
         ELSE CheckDueFrom(store, i + 1, nowdt,
                  IF IsDue(store[i], nowdt) THEN Append(due, store[i]) ELSE due)

CheckDueReminders(store, t) == CheckDueFrom(store, 1, Utc(t), <<>>)

(***************************************************************************)
(* email_service.py as the cycle sees it. What the environment decides     *)
(* for one cycle is a record                                               *)
(*   svc     how get_email_service() ends                                  *)
(*   raised  whether the fetch (load_config or fetch_emails) raises        *)
(*   emails  the list fetch_emails returns otherwise                       *)
(***************************************************************************)
ServiceKinds ==
    {"unconfigured",     \* emailAccount.type missing or unsupported
     "no_client_id",     \* MSGraphService raises ValueError
     "init_error",       \* load_config or MSGraphService raises another exception
     "imap_smtp",        \* the IMAPService stub, which has no fetch_emails
     "microsoft_graph"}

\* get_email_service(): the result, or "raise" when an exception leaves it.
\* Only ValueError from MSGraphService(app_config) is caught.
GetEmailService(svc) ==
    CASE svc = "unconfigured" -> "None"
      [] svc = "no_client_id" -> "None"
      [] svc = "init_error" -> "raise"
      [] svc = "imap_smtp" -> "IMAPService"
      [] svc = "microsoft_graph" -> "MSGraphService"

MailIds == 1..MaxMailIds
Emails == [id : MailIds, ver : 1..MaxVersions]
RECURSIVE SeqsUpTo(_, _)
SeqsUpTo(S, n) ==
    IF n = 0 THEN {<<>>}
    ELSE LET shorter == SeqsUpTo(S, n - 1)
         IN  shorter \cup {Append(q, e) : q \in shorter, e \in S}

\* config.get('scheduler', {}).get('fetchLimit', 25)
DefaultFetchLimit == 25
\* Mutant of FetchLimit: the configuration is not consulted.
FetchLimitFixed(cfg) == DefaultFetchLimit
FetchLimit(cfg) == IF cfg.fetchLimit = None THEN DefaultFetchLimit ELSE The(cfg.fetchLimit)
\* config.get('scheduler', {}).get('intervalMinutes', 15)
DefaultIntervalMinutes == 15
IntervalMinutes(cfg) ==
    IF cfg.intervalMinutes = None THEN DefaultIntervalMinutes ELSE The(cfg.intervalMinutes)

\* Mutant of MergeEmails: no test of _processed_email_ids.
RECURSIVE MergeEmailsNoDedup(_, _, _, _)
MergeEmailsNoDedup(store, processed, added_count, emails) ==
    IF emails = <<>>
    THEN [store |-> store, processed |-> processed, added_count |-> added_count]
    ELSE MergeEmailsNoDedup(DictSet(store, Head(emails)),
                            processed \cup {Head(emails).id},
                            added_count + 1, Tail(emails))

\* Mutants of MergeEmails: (1) the id is not added to _processed_email_ids;
\* (2) a message whose id was processed replaces the stored one.
RECURSIVE MergeEmailsNoMark(_, _, _, _)
MergeEmailsNoMark(store, processed, added_count, emails) ==
    IF emails = <<>>
    THEN [store |-> store, processed |-> processed, added_count |-> added_count]
    ELSE LET email == Head(emails)
         IN  IF email.id \notin processed
             THEN MergeEmailsNoMark(DictSet(store, email), processed,
                                    added_count + 1, Tail(emails))
             ELSE MergeEmailsNoMark(store, processed, added_count, Tail(emails))
RECURSIVE MergeEmailsOverwrites(_, _, _, _)
MergeEmailsOverwrites(store, processed, added_count, emails) ==
    IF emails = <<>>
    THEN [store |-> store, processed |-> processed, added_count |-> added_count]
    ELSE LET email == Head(emails)
         IN  IF email.id \notin processed
             THEN MergeEmailsOverwrites(DictSet(store, email),
                                        processed \cup {email.id},
                                        added_count + 1, Tail(emails))
             ELSE MergeEmailsOverwrites(DictSet(store, email), processed,
                                        added_count, Tail(emails))

\* The loop of lines 42-50 over newly_fetched_emails.
RECURSIVE MergeEmails(_, _, _, _)
MergeEmails(store, processed, added_count, emails) ==
    IF emails = <<>>
    THEN [store |-> store, processed |-> processed, added_count |-> added_count]
    ELSE LET email == Head(emails)
         IN  IF email.id \notin processed
             THEN MergeEmails(DictSet(store, email), processed \cup {email.id},
                              added_count + 1, Tail(emails))
             ELSE MergeEmails(store, processed, added_count, Tail(emails))

\* Part 1 of _periodic_email_fetch_job, lines 31-59, for a service that was
\* obtained. outcome: skipped (no service), error (an exception was caught),
\* empty (nothing fetched), merged (the loop ran).
\* Mutant of MailSync: a cycle that merges nothing starts the stores afresh.
MailSyncForgets(service, env, store, processed) ==
    LET same(o) == [store |-> <<>>, processed |-> {},
                    outcome |-> o, added_count |-> 0]
    IN  IF service = "None" THEN same("skipped")
        ELSE IF service = "IMAPService" THEN same("error")
        ELSE IF env.raised THEN same("error")
        ELSE IF env.emails = <<>> THEN same("empty")
        ELSE LET m == MergeEmails(store, processed, 0, env.emails)
             IN  [store |-> m.store, processed |-> m.processed,
                  outcome |-> "merged", added_count |-> m.added_count]
MailSync(service, env, store, processed) ==
    LET same(o) == [store |-> store, processed |-> processed,
                    outcome |-> o, added_count |-> 0]
    IN  IF service = "None" THEN same("skipped")
        ELSE IF service = "IMAPService" THEN same("error")
        ELSE IF env.raised THEN same("error")
        ELSE IF env.emails = <<>> THEN same("empty")
        ELSE LET m == MergeEmails(store, processed, 0, env.emails)
             IN  [store |-> m.store, processed |-> m.processed,
                  outcome |-> "merged", added_count |-> m.added_count]

\* The loop of lines 67-72: update_reminder(reminder.id, is_active=False)
\* for each due reminder in turn.
RECURSIVE DeactivateAll(_, _)
DeactivateAll(store, due) ==
    IF due = <<>> THEN store
    ELSE DeactivateAll(
            UpdateReminderStore(store, Head(due).id, None, None, Some(FALSE), None),
            Tail(due))

\* Part 2 of _periodic_email_fetch_job, lines 63-76, uninterrupted: the
\* scan, then the loop; an exception of the scan is caught and logged.
DueCheck(store, t) ==
    LET chk == CheckDueReminders(store, t)
    IN  IF chk.raised
        THEN [store |-> store, raised |-> TRUE, processed |-> {}]
        ELSE [store |-> DeactivateAll(store, chk.due), raised |-> FALSE,
              processed |-> {chk.due[i].id : i \in 1..Len(chk.due)}]

\* Part 2 when the body of the loop (lines 68-72) raises for the fail_at-th
\* due reminder (0: for none). The try of line 63 encloses the whole loop:
\* the reminders before that one have been deactivated, the exception leaves
\* the loop and is caught and logged at lines 75-76.
DueCheckFailing(store, t, fail_at) ==
    LET chk == CheckDueReminders(store, t)
        ids == [i \in 1..Len(chk.due) |-> chk.due[i].id]
        done == IF fail_at = 0 THEN Len(chk.due) ELSE fail_at - 1
    IN  IF chk.raised
        THEN [store |-> store, raised |-> TRUE, processed |-> {},
              batch |-> {}, failed |-> {}]
        ELSE [store |-> DeactivateAll(store, SubSeq(chk.due, 1, done)),
              raised |-> fail_at # 0,
              processed |-> {ids[i] : i \in 1..done},
              batch |-> {ids[i] : i \in 1..Len(ids)},
              failed |-> IF fail_at = 0 THEN {} ELSE {ids[fail_at]}]

(***************************************************************************)
(* The APScheduler objects scheduler_service.py drives. The job store is   *)
(* the list of registered jobs; add_job(..., id=..., replace_existing=True)*)
(* replaces a job of the same id.                                          *)
(***************************************************************************)
EMAIL_FETCH_JOB_ID == "email_fetch_job"
GetJob(js, id) == {js[i] : i \in {k \in 1..Len(js) : js[k].id = id}}
AddJob(js, job) == Append(SelectSeq(js, LAMBDA j : j.id # job.id), job)
\* add_job is called without max_instances: the library's default of 1.
MaxInstances == 1

(***************************************************************************)
(* State.                                                                  *)
(***************************************************************************)
VARIABLES
    now,                    \* the clock, datetime.now(timezone.utc)
    reminders_store,        \* reminder_service._reminders_store
    next_id,                \* the next id uuid4 gives
    fetched_emails_store,   \* scheduler_service._fetched_emails_store
    processed_email_ids,    \* scheduler_service._processed_email_ids
    running,                \* scheduler.running
    jobs,                   \* the scheduler's job store
    instances,              \* running instances of the job, as the executor counts them
    config,                 \* what load_config() returns
    threads,                \* the executor's worker threads running the job
    handler,                \* the request-handler thread, inside update_reminder or not
    hist,                   \* history, per reminder id (see NoHist)
    sync_log,               \* history: what the last mail sync did
    cycle_log,              \* history: how the last cycle ended
    lifecycle_log,          \* history: the last start/stop call and how often it was repeated
    flight_log,             \* history: what happened while the current cycle was executing
    call_log                \* history: the last logged call, its arguments and what it returned

vars == <<now, reminders_store, next_id, fetched_emails_store,
          processed_email_ids, running, jobs, instances, config,
          threads, handler, hist, sync_log, cycle_log, lifecycle_log, flight_log,
          call_log>>

\* Worker threads the model gives the executor (its pool has 10).
MaxThreads == 2
Threads == 1..MaxThreads
ReminderIds == 1..MaxReminders

IdleThread == [pc |-> "idle", mail |-> "none", due |-> <<>>, read |-> None]
IdleHandler == [pc |-> "idle"]

(***************************************************************************)
(* History variables. Per reminder id, since the last add_reminder or      *)
(* update_reminder call of a request handler for that id:                  *)
(*   req      the due time that call asked for, as it was passed           *)
(*   armed    whether that call asked for an active reminder               *)
(*   runs     the due-check passes made at or after req                    *)
(*   fired    the times the due-check loop processed the reminder          *)
(*   snoozed  set when the call gave a snooze_until. early: the reminder   *)
(*            was as created with due time T0 and snooze_until < now < T0  *)
(*            held; it then holds T0. refire: the reminder had been fired  *)
(*            and was inactive. conflict: the same call passed             *)
(*            is_active = False and another reminder_time                  *)
(***************************************************************************)
NoHist == [req |-> Utc(0), armed |-> FALSE, runs |-> 0, fired |-> 0, snoozed |-> None]

HistOnAdd(reminder_time) ==
    [req |-> reminder_time, armed |-> TRUE, runs |-> 0, fired |-> 0, snoozed |-> None]

HistOnUpdate(h, reminder, reminder_time, is_active, snooze_until, t) ==
    [req |-> IF snooze_until # None THEN The(snooze_until)
             ELSE IF reminder_time # None THEN The(reminder_time)
             ELSE h.req,
     armed |-> IF snooze_until # None THEN TRUE
               ELSE IF is_active # None THEN The(is_active)
               ELSE reminder.is_active,
     runs |-> 0,
     fired |-> 0,
     snoozed |-> IF snooze_until = None THEN None
                 ELSE Some([early |-> IF /\ ~reminder.fields_set_snooze
                                         /\ The(snooze_until).wall < t
                                         /\ t < reminder.reminder_time.wall
                                      THEN Some(reminder.reminder_time.wall)
                                      ELSE None,
                            refire |-> ~reminder.is_active /\ h.fired >= 1,
                            conflict |-> /\ is_active = Some(FALSE)
                                         /\ reminder_time \notin {None, snooze_until}])]

\* A due-check pass at time t over `store`, whose loop processed `processed`.
HistOnPass(hs, store, t) ==
    [id \in DOMAIN hs |->
        IF HasKey(store, id) /\ hs[id].req.wall <= t
        THEN [hs[id] EXCEPT !.runs = Min(@ + 1, MaxRuns)]
        ELSE hs[id]]
HistOnFire(hs, processed) ==
    [id \in DOMAIN hs |->
        IF id \in processed
        THEN [hs[id] EXCEPT !.fired = Min(@ + 1, MaxRuns)]
        ELSE hs[id]]

\* sync_log: the count and the batch of the last merge, and the processed
\* ids before it. cycle_log: status none | finished | raised, and what the
\* mail part met: ok | unavailable | obtain_raised | fetch_raised.
NoCycle == [status |-> "none", mail |-> "none"]
\* flight_log, while a cycle is executing: skipped, a timer tick was turned
\* away; lifecycle, none | stopped | restarted: stop_scheduler_tasks, then
\* start_scheduler_tasks, were called.
NoFlight == [skipped |-> FALSE, lifecycle |-> "none"]
\* call_log: op is none until a logged call is made; the other fields are
\* those of the call (see the logged calls below).
NoCall == [op |-> "none"]
MailStatus(svc, outcome) ==
    CASE svc = "init_error" -> "obtain_raised"
      [] outcome = "skipped" -> "unavailable"
      [] outcome = "error" -> "fetch_raised"
      [] OTHER -> "ok"

\* The state once the modules are imported: nothing stored, scheduler stopped.
Init ==
    /\ now = 0
    /\ reminders_store = <<>>
    /\ next_id = 1
    /\ fetched_emails_store = <<>>
    /\ processed_email_ids = {}
    /\ running = FALSE
    /\ jobs = <<>>
    /\ instances = 0
    /\ config = [intervalMinutes |-> None, fetchLimit |-> None]
    /\ threads = [th \in Threads |-> IdleThread]
    /\ handler = IdleHandler
    /\ hist = [id \in ReminderIds |-> NoHist]
    /\ sync_log = [added_count |-> 0, batch |-> <<>>, seen_before |-> {}]
    /\ cycle_log = NoCycle
    /\ lifecycle_log = [last |-> "none", n |-> 0]
    /\ flight_log = NoFlight
    /\ call_log = NoCall

(***************************************************************************)
(* The clock.                                                              *)
(***************************************************************************)
AdvanceClock ==
    /\ now < MaxTime
    /\ now' = now + 1
    /\ cycle_log' = NoCycle
    /\ UNCHANGED <<reminders_store, next_id, fetched_emails_store,
                   processed_email_ids, running, jobs, instances, config,
                   threads, handler, hist, sync_log, lifecycle_log, flight_log,
                   call_log>>

(***************************************************************************)
(* Request handlers (main.py, lines 286-332), each call uninterrupted.     *)
(***************************************************************************)
\* POST /reminders -> add_reminder
AddReminder(reminder_time, email_id, message) ==
    /\ handler.pc = "idle"
    /\ next_id <= MaxReminders
    /\ reminders_store' = AddReminderStore(reminders_store, next_id, reminder_time,
                                           email_id, message)
    /\ next_id' = next_id + 1
    /\ hist' = [hist EXCEPT ![next_id] = HistOnAdd(reminder_time)]
    /\ cycle_log' = NoCycle
    /\ UNCHANGED <<now, fetched_emails_store, processed_email_ids, running, jobs,
                   instances, config, threads, handler, sync_log, lifecycle_log, flight_log,
                   call_log>>

\* PUT /reminders/{id} -> update_reminder; an unknown id changes nothing (404).
UpdateReminder(id, reminder_time, message, is_active, snooze_until) ==
    /\ handler.pc = "idle"
    /\ reminders_store' = UpdateReminderStore(reminders_store, id, reminder_time,
                                              message, is_active, snooze_until)
    /\ hist' = IF HasKey(reminders_store, id)
               THEN [hist EXCEPT ![id] = HistOnUpdate(@, DictGet(reminders_store, id),
                                            reminder_time, is_active, snooze_until, now)]
               ELSE hist
    /\ cycle_log' = NoCycle
    /\ UNCHANGED <<now, next_id, fetched_emails_store, processed_email_ids, running,
                   jobs, instances, config, threads, handler, sync_log, lifecycle_log, flight_log,
                   call_log>>

\* DELETE /reminders/{id} -> delete_reminder; an unknown id changes nothing (404).
DeleteReminder(id) ==
    /\ handler.pc = "idle"
    /\ reminders_store' = DeleteReminderStore(reminders_store, id)
    /\ hist' = [hist EXCEPT ![id] = NoHist]
    /\ cycle_log' = NoCycle
    /\ UNCHANGED <<now, next_id, fetched_emails_store, processed_email_ids, running,
                   jobs, instances, config, threads, handler, sync_log, lifecycle_log, flight_log,
                   call_log>>

(***************************************************************************)
(* The same handlers with the call logged: call_log holds the operation,   *)
(* the id, what the service function returned, the store before the call   *)
(* and, for a delete that follows a successful delete of the same id,      *)
(* whether the reminder removed then was active (again).                   *)
(***************************************************************************)
Call(op, id, result, again) ==
    [op |-> op, id |-> id, result |-> result, before |-> reminders_store,
     again |-> again]

AddCall(reminder_time, email_id, message) ==
    /\ handler.pc = "idle"
    /\ next_id <= MaxReminders
    /\ reminders_store' = AddReminderStore(reminders_store, next_id, reminder_time,
                                           email_id, message)
    /\ next_id' = next_id + 1
    /\ hist' = [hist EXCEPT ![next_id] = HistOnAdd(reminder_time)]
    /\ cycle_log' = NoCycle
    /\ call_log' = Call("add", next_id, GetReminder(reminders_store', next_id), None)
    /\ UNCHANGED <<now, fetched_emails_store, processed_email_ids, running, jobs,
                   instances, config, threads, handler, sync_log, lifecycle_log,
                   flight_log>>

\* The Reminder with the field created_at, whose default_factory reads the
\* clock when the Reminder is constructed (line 17).
WithCreatedAt(reminder, t) == reminder @@ [created_at |-> Utc(t)]

\* add_reminder, logged, the stored Reminder carrying created_at.
AddCallAt(reminder_time, email_id, message) ==
    /\ handler.pc = "idle"
    /\ next_id <= MaxReminders
    /\ reminders_store' = DictSet(reminders_store,
            WithCreatedAt(NewReminder(next_id, email_id, AssumeUtc(reminder_time),
                                      message), now))
    /\ next_id' = next_id + 1
    /\ hist' = [hist EXCEPT ![next_id] = HistOnAdd(reminder_time)]
    /\ cycle_log' = NoCycle
    /\ call_log' = Call("add", next_id, GetReminder(reminders_store', next_id), None)
    /\ UNCHANGED <<now, fetched_emails_store, processed_email_ids, running, jobs,
                   instances, config, threads, handler, sync_log, lifecycle_log,
                   flight_log>>

\* GET /reminders/{id} -> get_reminder
GetCall(id) ==
    /\ handler.pc = "idle"
    /\ call_log' = Call("get", id, GetReminder(reminders_store, id), None)
    /\ UNCHANGED <<now, reminders_store, next_id, fetched_emails_store,
                   processed_email_ids, running, jobs, instances, config, threads,
                   handler, hist, sync_log, cycle_log, lifecycle_log, flight_log>>

UpdateCall(id, reminder_time, message, is_active, snooze_until) ==
    /\ handler.pc = "idle"
    /\ reminders_store' = UpdateReminderStore(reminders_store, id, reminder_time,
                                              message, is_active, snooze_until)
    /\ hist' = IF HasKey(reminders_store, id)
               THEN [hist EXCEPT ![id] = HistOnUpdate(@, DictGet(reminders_store, id),
                                            reminder_time, is_active, snooze_until, now)]
               ELSE hist
    /\ cycle_log' = NoCycle
    /\ call_log' = Call("update", id,
                        UpdateReminderResult(reminders_store, id, reminder_time,
                                             message, is_active, snooze_until),
                        None)
    /\ UNCHANGED <<now, next_id, fetched_emails_store, processed_email_ids, running,
                   jobs, instances, config, threads, handler, sync_log, lifecycle_log,
                   flight_log>>

DeleteCall(id) ==
    /\ handler.pc = "idle"
    /\ reminders_store' = DeleteReminderStore(reminders_store, id)
    /\ hist' = [hist EXCEPT ![id] = NoHist]
    /\ cycle_log' = NoCycle
    /\ call_log' = Call("delete", id, DeleteReminderResult(reminders_store, id),
                        IF call_log.op = "delete" /\ call_log.id = id /\ call_log.result
                        THEN Some(DictGet(call_log.before, id).is_active)
                        ELSE None)
    /\ UNCHANGED <<now, next_id, fetched_emails_store, processed_email_ids, running,
                   jobs, instances, config, threads, handler, sync_log, lifecycle_log,
                   flight_log>>

(***************************************************************************)
(* The scheduler lifecycle.                                                *)
(***************************************************************************)
LogCall(log, call) ==
    [last |-> call, n |-> IF log.last = call THEN Min(log.n + 1, MaxRuns) ELSE 1]

\* Mutant of StartScheduler: no check of scheduler.running or get_job, and a
\* job added without replacing the one of the same id.
StartSchedulerAlwaysAdds(run, js, cfg) ==
    [running |-> TRUE,
     jobs |-> Append(js, [id |-> EMAIL_FETCH_JOB_ID, minutes |-> IntervalMinutes(cfg)])]

\* Mutant of StartScheduler: every call registers the job again, with the
\* interval of the configuration as it is at that call.
StartSchedulerReschedules(run, js, cfg) ==
    [running |-> TRUE,
     jobs |-> AddJob(js, [id |-> EMAIL_FETCH_JOB_ID,
                          minutes |-> IntervalMinutes(cfg)])]

\* start_scheduler_tasks, lines 85-114, on the scheduler's running flag and
\* job store: the pair after the call.
StartScheduler(run, js, cfg) ==
    IF run /\ GetJob(js, EMAIL_FETCH_JOB_ID) # {}
    THEN [running |-> run, jobs |-> js]
    ELSE [running |-> TRUE,
          jobs |-> IF GetJob(js, EMAIL_FETCH_JOB_ID) = {}
                   THEN AddJob(js, [id |-> EMAIL_FETCH_JOB_ID,
                                    minutes |-> IntervalMinutes(cfg)])
                   ELSE js]

StartSchedulerTasks ==
    /\ running' = StartScheduler(running, jobs, config).running
    /\ jobs' = StartScheduler(running, jobs, config).jobs
    /\ lifecycle_log' = LogCall(lifecycle_log, "start")
    /\ flight_log' = IF flight_log.lifecycle = "stopped"
                     THEN [flight_log EXCEPT !.lifecycle = "restarted"]
                     ELSE flight_log
    /\ UNCHANGED <<now, reminders_store, next_id, fetched_emails_store,
                   processed_email_ids, instances, config, threads, handler,
                   hist, sync_log, cycle_log, call_log>>

\* Mutant of StopScheduler: the scheduler and its job are left as they were.
StopSchedulerKeepsRunning(run, js) == [running |-> run, jobs |-> js]

\* stop_scheduler_tasks: scheduler.shutdown(wait=False) stops the scheduler
\* and shuts its memory job store down, which drops the jobs; jobs that are
\* executing are not waited for.
StopScheduler(run, js) ==
    IF run
    THEN [running |-> FALSE, jobs |-> <<>>]
    ELSE [running |-> run, jobs |-> js]

StopSchedulerTasks ==
    /\ running' = StopScheduler(running, jobs).running
    /\ jobs' = StopScheduler(running, jobs).jobs
    /\ lifecycle_log' = LogCall(lifecycle_log, "stop")
    /\ flight_log' = IF instances > 0 /\ running
                     THEN [flight_log EXCEPT !.lifecycle = "stopped"]
                     ELSE flight_log
    /\ UNCHANGED <<now, reminders_store, next_id, fetched_emails_store,
                   processed_email_ids, instances, config, threads, handler,
                   hist, sync_log, cycle_log, call_log>>

\* The state once the application has started: main.py's startup_event has
\* called start_scheduler_tasks().
InitStarted ==
    /\ now = 0
    /\ reminders_store = <<>>
    /\ next_id = 1
    /\ fetched_emails_store = <<>>
    /\ processed_email_ids = {}
    /\ config = [intervalMinutes |-> None, fetchLimit |-> None]
    /\ running = StartScheduler(FALSE, <<>>, config).running
    /\ jobs = StartScheduler(FALSE, <<>>, config).jobs
    /\ instances = 0
    /\ threads = [th \in Threads |-> IdleThread]
    /\ handler = IdleHandler
    /\ hist = [id \in ReminderIds |-> NoHist]
    /\ sync_log = [added_count |-> 0, batch |-> <<>>, seen_before |-> {}]
    /\ cycle_log = NoCycle
    /\ lifecycle_log = [last |-> "start", n |-> 1]
    /\ flight_log = NoFlight
    /\ call_log = NoCall

(***************************************************************************)
(* One cycle, _periodic_email_fetch_job, run to its end without another    *)
(* thread in between. The timer fires it while the scheduler is running,   *)
(* the job is registered and fewer than max_instances of it are executing. *)
(***************************************************************************)
\* Mutant of CanSubmit: no limit on the instances of the job.
CanSubmitNoLimit == running /\ GetJob(jobs, EMAIL_FETCH_JOB_ID) # {}
CanSubmit == running /\ GetJob(jobs, EMAIL_FETCH_JOB_ID) # {} /\ instances < MaxInstances

RunCycle(env) ==
    /\ CanSubmit
    /\ Len(env.emails) <= FetchLimit(config)
    /\ LET service == GetEmailService(env.svc)
       IN  IF service = "raise"
           THEN \* line 30 is outside every try: the job ends with the exception
                /\ cycle_log' = [status |-> "raised", mail |-> "obtain_raised"]
                /\ UNCHANGED <<reminders_store, fetched_emails_store,
                               processed_email_ids, hist, sync_log>>
           ELSE LET sync == MailSync(service, env, fetched_emails_store,
                                     processed_email_ids)
                    chk == DueCheck(reminders_store, now)
                IN  /\ fetched_emails_store' = sync.store
                    /\ processed_email_ids' = sync.processed
                    /\ sync_log' = [added_count |-> sync.added_count,
                                    batch |-> IF sync.outcome = "merged"
                                              THEN env.emails ELSE <<>>,
                                    seen_before |-> processed_email_ids]
                    /\ reminders_store' = chk.store
                    /\ hist' = HistOnFire(HistOnPass(hist, reminders_store, now),
                                          chk.processed)
                    /\ cycle_log' = [status |-> "finished",
                                     mail |-> MailStatus(env.svc, sync.outcome)]
    /\ UNCHANGED <<now, next_id, running, jobs, instances, config, threads, handler,
                   lifecycle_log, flight_log, call_log>>

\* The cycle with what it passed to fetch_emails logged: call_log.top is
\* fetch_limit of line 36, None when line 36 was not reached; call_log.prev
\* is the top of the cycle logged before.
RunCycleLogged(env) ==
    /\ CanSubmit
    /\ Len(env.emails) <= FetchLimit(config)
    /\ LET service == GetEmailService(env.svc)
       IN  IF service = "raise"
           THEN /\ cycle_log' = [status |-> "raised", mail |-> "obtain_raised"]
                /\ UNCHANGED <<reminders_store, fetched_emails_store,
                               processed_email_ids, hist, sync_log>>
           ELSE LET sync == MailSync(service, env, fetched_emails_store,
                                     processed_email_ids)
                    chk == DueCheck(reminders_store, now)
                IN  /\ fetched_emails_store' = sync.store
                    /\ processed_email_ids' = sync.processed
                    /\ sync_log' = [added_count |-> sync.added_count,
                                    batch |-> IF sync.outcome = "merged"
                                              THEN env.emails ELSE <<>>,
                                    seen_before |-> processed_email_ids]
                    /\ reminders_store' = chk.store
                    /\ hist' = HistOnFire(HistOnPass(hist, reminders_store, now),
                                          chk.processed)
                    /\ cycle_log' = [status |-> "finished",
                                     mail |-> MailStatus(env.svc, sync.outcome)]
    /\ call_log' = [op |-> "cycle",
                    top |-> IF GetEmailService(env.svc) \in {"raise", "None"}
                            THEN None ELSE Some(FetchLimit(config)),
                    prev |-> IF call_log.op = "cycle" THEN call_log.top ELSE None]
    /\ UNCHANGED <<now, next_id, running, jobs, instances, config, threads, handler,
                   lifecycle_log, flight_log>>

\* The configuration file is rewritten (POST /config -> save_config, or by
\* hand): load_config() reads the file at every call, so its next result is
\* the new content.
SetConfig(cfg) ==
    /\ config' = cfg
    /\ UNCHANGED <<now, reminders_store, next_id, fetched_emails_store,
                   processed_email_ids, running, jobs, instances, threads, handler,
                   hist, sync_log, cycle_log, lifecycle_log, flight_log, call_log>>

\* One cycle in which the body of the due-check loop raises for the
\* fail_at-th due reminder (0: for none). call_log: the ids the scan
\* returned (batch) and the one whose processing raised (failed).
RunCycleFailing(env, fail_at) ==
    /\ CanSubmit
    /\ Len(env.emails) <= FetchLimit(config)
    /\ fail_at <= Len(CheckDueReminders(reminders_store, now).due)
    /\ LET service == GetEmailService(env.svc)
       IN  IF service = "raise"
           THEN /\ fail_at = 0
                /\ cycle_log' = [status |-> "raised", mail |-> "obtain_raised"]
                /\ call_log' = [op |-> "cycle", batch |-> {}, failed |-> {}]
                /\ UNCHANGED <<reminders_store, fetched_emails_store,
                               processed_email_ids, hist, sync_log>>
           ELSE LET sync == MailSync(service, env, fetched_emails_store,
                                     processed_email_ids)
                    chk == DueCheckFailing(reminders_store, now, fail_at)
                IN  /\ fetched_emails_store' = sync.store
                    /\ processed_email_ids' = sync.processed
                    /\ sync_log' = [added_count |-> sync.added_count,
                                    batch |-> IF sync.outcome = "merged"
                                              THEN env.emails ELSE <<>>,
                                    seen_before |-> processed_email_ids]
                    /\ reminders_store' = chk.store
                    /\ hist' = HistOnFire(HistOnPass(hist, reminders_store, now),
                                          chk.processed)
                    /\ cycle_log' = [status |-> "finished",
                                     mail |-> MailStatus(env.svc, sync.outcome)]
                    /\ call_log' = [op |-> "cycle", batch |-> chk.batch,
                                    failed |-> chk.failed]
    /\ UNCHANGED <<now, next_id, running, jobs, instances, config, threads, handler,
                   lifecycle_log, flight_log>>

(***************************************************************************)
(* Specifications in which handlers and cycles take turns (no interleaving *)
(* inside a call). They differ in the inputs the environment gives.        *)
(***************************************************************************)
\* How a cycle's mail part can end when no mail arrives.
NoMailEnvs ==
    {[svc |-> k, raised |-> FALSE, emails |-> <<>>] : k \in ServiceKinds}
    \cup {[svc |-> "microsoft_graph", raised |-> TRUE, emails |-> <<>>]}

AwareTimes == {Utc(w) : w \in Walls}
NaiveTimes == {Naive(w) : w \in Walls}

\* Spec: the application is up; timestamps carry a timezone; no mail arrives.
NextOver(times, envs) ==
    \/ AdvanceClock
    \/ \E rt \in times : AddReminder(rt, None, Some("ping"))
    \/ \E id \in ReminderIds, rt \in Opt(times), act \in Opt(BOOLEAN),
          snz \in Opt(times) : UpdateReminder(id, rt, None, act, snz)
    \/ \E id \in ReminderIds : DeleteReminder(id)
    \/ \E env \in envs : RunCycle(env)

Next == NextOver(AwareTimes, NoMailEnvs)
Spec == InitStarted /\ [][Next]_vars

\* SpecNaive: as Spec, with timestamps that carry no timezone.
NextNaive == NextOver(NaiveTimes, NoMailEnvs)
SpecNaive == InitStarted /\ [][NextNaive]_vars

\* SpecMail: the provider returns batches of up to MaxBatch messages.
MailEnvs ==
    NoMailEnvs
    \cup {[svc |-> "microsoft_graph", raised |-> FALSE, emails |-> e] :
            e \in SeqsUpTo(Emails, MaxBatch)}
NextMail ==
    \/ AddReminder(Utc(0), None, Some("ping"))
    \/ \E env \in MailEnvs : RunCycle(env)
SpecMail == InitStarted /\ [][NextMail]_vars

\* SpecLife: from the imported modules, with start and stop called at will.
NextLife ==
    \/ AdvanceClock
    \/ \E rt \in AwareTimes : AddReminder(rt, None, Some("ping"))
    \/ StartSchedulerTasks
    \/ StopSchedulerTasks
    \/ \E env \in NoMailEnvs : RunCycle(env)
SpecLife == Init /\ [][NextLife]_vars

\* SpecFail: as Spec without updates and deletes; the body of the due-check
\* loop may raise.
NextFail ==
    \/ AdvanceClock
    \/ \E rt \in AwareTimes : AddReminder(rt, None, Some("ping"))
    \/ \E env \in NoMailEnvs, fail_at \in 0..MaxReminders :
          RunCycleFailing(env, fail_at)
SpecFail == InitStarted /\ [][NextFail]_vars

\* SpecConfig: the configuration changes while the application is up; None
\* is a scheduler section, or a key of it, that is missing.
Configs == [intervalMinutes : Opt({1}), fetchLimit : Opt(1..MaxBatch)]
NextConfig ==
    \/ \E cfg \in Configs : SetConfig(cfg)
    \/ StartSchedulerTasks
    \/ StopSchedulerTasks
    \/ \E env \in MailEnvs : RunCycleLogged(env)
SpecConfig == InitStarted /\ [][NextConfig]_vars

\* SpecIdent: reminders that carry created_at and an email_id; the clock,
\* the logged handlers and the logged cycle.
NextIdent ==
    \/ AdvanceClock
    \/ \E email_id \in Opt({"m1"}) : AddCallAt(Utc(0), email_id, Some("ping"))
    \/ \E id \in ReminderIds, rt \in Opt({Utc(1)}), snz \in Opt({Utc(MaxTime)}) :
          UpdateCall(id, rt, IF rt = None THEN None ELSE Some("pong"), None, snz)
    \/ \E id \in ReminderIds : DeleteCall(id)
    \/ RunCycleLogged([svc |-> "unconfigured", raised |-> FALSE, emails |-> <<>>])
SpecIdent == InitStarted /\ [][NextIdent]_vars

\* SpecCalls: the handlers alone, every call logged.
NextCalls ==
    \/ \E rt \in AwareTimes : AddCall(rt, None, Some("ping"))
    \/ \E id \in ReminderIds : GetCall(id)
    \/ \E id \in ReminderIds, rt \in Opt(AwareTimes), act \in Opt(BOOLEAN),
          snz \in Opt(AwareTimes) : UpdateCall(id, rt, None, act, snz)
    \/ \E id \in ReminderIds : DeleteCall(id)
SpecCalls == InitStarted /\ [][NextCalls]_vars

(***************************************************************************)
(* The cycle as the executor's thread runs it, one step at a time, beside  *)
(* the request-handler thread and the start/stop calls.                    *)
(*   pc = obtain  line 30     get_email_service()                          *)
(*        sync    lines 31-59 the mail part                                *)
(*        fetch   line 39     inside fetch_emails, waiting for the network *)
(*        scan    line 64     check_due_reminders()                        *)
(*        read    line 71     update_reminder, its read of the store       *)
(*        write   line 71     update_reminder, its write to the store      *)
(*        end     line 78     the job returns to the executor              *)
(***************************************************************************)
SetThread(th, rec) == [threads EXCEPT ![th] = rec]
Executing == {th \in Threads : threads[th].pc # "idle"}

\* The timer fires and the executor takes the job.
JobSubmit(th) ==
    /\ CanSubmit
    /\ threads[th].pc = "idle"
    /\ \A other \in Threads : other < th => threads[other].pc # "idle"
    /\ threads' = SetThread(th, [IdleThread EXCEPT !.pc = "obtain"])
    /\ instances' = instances + 1
    /\ flight_log' = IF instances = 0 THEN NoFlight ELSE flight_log
    /\ UNCHANGED <<now, reminders_store, next_id, fetched_emails_store,
                   processed_email_ids, running, jobs, config, handler, hist,
                   sync_log, cycle_log, lifecycle_log, call_log>>

\* The timer fires while max_instances of the job are executing: the
\* executor refuses the run and the scheduler logs it as skipped.
TimerSkip ==
    /\ running /\ GetJob(jobs, EMAIL_FETCH_JOB_ID) # {}
    /\ ~CanSubmit
    /\ flight_log' = [flight_log EXCEPT !.skipped = TRUE]
    /\ UNCHANGED <<now, reminders_store, next_id, fetched_emails_store,
                   processed_email_ids, running, jobs, instances, config, threads,
                   handler, hist, sync_log, cycle_log, lifecycle_log, call_log>>

\* The job returns or raises: the executor counts the instance out.
JobReturn(th, status) ==
    /\ threads' = SetThread(th, IdleThread)
    /\ instances' = instances - 1
    /\ cycle_log' = [status |-> status, mail |-> threads[th].mail]
    /\ flight_log' = IF instances = 1 THEN NoFlight ELSE flight_log

\* Mutant of JobObtain: the due-check is entered with the service in hand
\* and the mail sync left out.
JobObtainDueFirst(th, svc) ==
    /\ threads[th].pc = "obtain"
    /\ IF GetEmailService(svc) = "raise"
       THEN /\ threads' = SetThread(th, IdleThread)
            /\ instances' = instances - 1
            /\ cycle_log' = [status |-> "raised", mail |-> "obtain_raised"]
            /\ flight_log' = IF instances = 1 THEN NoFlight ELSE flight_log
       ELSE /\ threads' = SetThread(th, [threads[th] EXCEPT
                                            !.pc = "scan",
                                            !.mail = GetEmailService(svc)])
            /\ UNCHANGED <<instances, cycle_log, flight_log>>
    /\ UNCHANGED <<now, reminders_store, next_id, fetched_emails_store,
                   processed_email_ids, running, jobs, config, handler, hist,
                   sync_log, lifecycle_log, call_log>>

JobObtain(th, svc) ==
    /\ threads[th].pc = "obtain"
    /\ IF GetEmailService(svc) = "raise"
       THEN /\ threads' = SetThread(th, IdleThread)
            /\ instances' = instances - 1
            /\ cycle_log' = [status |-> "raised", mail |-> "obtain_raised"]
            /\ flight_log' = IF instances = 1 THEN NoFlight ELSE flight_log
       ELSE /\ threads' = SetThread(th, [threads[th] EXCEPT
                                            !.pc = "sync",
                                            !.mail = GetEmailService(svc)])
            /\ UNCHANGED <<instances, cycle_log, flight_log>>
    /\ UNCHANGED <<now, reminders_store, next_id, fetched_emails_store,
                   processed_email_ids, running, jobs, config, handler, hist,
                   sync_log, lifecycle_log, call_log>>

JobSync(th, env) ==
    /\ threads[th].pc = "sync"
    /\ Len(env.emails) <= FetchLimit(config)
    /\ GetEmailService(env.svc) = threads[th].mail
    /\ LET sync == MailSync(threads[th].mail, env, fetched_emails_store,
                            processed_email_ids)
       IN  /\ fetched_emails_store' = sync.store
           /\ processed_email_ids' = sync.processed
           /\ sync_log' = [added_count |-> sync.added_count,
                           batch |-> IF sync.outcome = "merged"
                                     THEN env.emails ELSE <<>>,
                           seen_before |-> processed_email_ids]
           /\ threads' = SetThread(th, [threads[th] EXCEPT
                                           !.pc = "scan",
                                           !.mail = MailStatus(env.svc, sync.outcome)])
    /\ UNCHANGED <<now, reminders_store, next_id, running, jobs, instances, config,
                   handler, hist, cycle_log, lifecycle_log, flight_log, call_log>>

\* fetch_emails (line 39) reaches requests.request(method, url, ...) at
\* email_service.py:125, which is given no timeout: the thread waits there
\* until the network answers.
JobFetchBlock(th) ==
    /\ threads[th].pc = "sync"
    /\ threads[th].mail = "MSGraphService"
    /\ threads' = SetThread(th, [threads[th] EXCEPT !.pc = "fetch"])
    /\ UNCHANGED <<now, reminders_store, next_id, fetched_emails_store,
                   processed_email_ids, running, jobs, instances, config, handler,
                   hist, sync_log, cycle_log, lifecycle_log, flight_log, call_log>>

\* The network answers (a response, or an error that requests raises and
\* _make_graph_api_call catches): the mail part goes on to its end.
JobFetchReturn(th, env) ==
    /\ threads[th].pc = "fetch"
    /\ env.svc = "microsoft_graph"
    /\ Len(env.emails) <= FetchLimit(config)
    /\ LET sync == MailSync(threads[th].mail, env, fetched_emails_store,
                            processed_email_ids)
       IN  /\ fetched_emails_store' = sync.store
           /\ processed_email_ids' = sync.processed
           /\ sync_log' = [added_count |-> sync.added_count,
                           batch |-> IF sync.outcome = "merged"
                                     THEN env.emails ELSE <<>>,
                           seen_before |-> processed_email_ids]
           /\ threads' = SetThread(th, [threads[th] EXCEPT
                                           !.pc = "scan",
                                           !.mail = MailStatus(env.svc, sync.outcome)])
    /\ UNCHANGED <<now, reminders_store, next_id, running, jobs, instances, config,
                   handler, hist, cycle_log, lifecycle_log, flight_log, call_log>>

JobScan(th) ==
    /\ threads[th].pc = "scan"
    /\ LET chk == CheckDueReminders(reminders_store, now)
       IN  threads' = SetThread(th, [threads[th] EXCEPT
                !.pc = IF chk.raised \/ chk.due = <<>> THEN "end" ELSE "read",
                !.due = IF chk.raised THEN <<>>
                        ELSE [i \in 1..Len(chk.due) |-> chk.due[i].id]])
    /\ hist' = HistOnPass(hist, reminders_store, now)
    /\ UNCHANGED <<now, reminders_store, next_id, fetched_emails_store,
                   processed_email_ids, running, jobs, instances, config, handler,
                   sync_log, cycle_log, lifecycle_log, flight_log, call_log>>

\* update_reminder(reminder.id, is_active=False), line 72 of reminder_service:
\* the reminder is read; a missing one ends the call with None.
JobUpdateRead(th) ==
    /\ threads[th].pc = "read"
    /\ LET id == Head(threads[th].due)
       IN  IF HasKey(reminders_store, id)
           THEN /\ threads' = SetThread(th, [threads[th] EXCEPT
                                  !.pc = "write",
                                  !.read = Some(DictGet(reminders_store, id))])
                /\ UNCHANGED hist
           ELSE /\ threads' = SetThread(th, [threads[th] EXCEPT
                                  !.pc = IF Tail(threads[th].due) = <<>> THEN "end" ELSE "read",
                                  !.due = Tail(@)])
                /\ hist' = HistOnFire(hist, {id})
    /\ UNCHANGED <<now, reminders_store, next_id, fetched_emails_store,
                   processed_email_ids, running, jobs, instances, config, handler,
                   sync_log, cycle_log, lifecycle_log, flight_log, call_log>>

\* ... and the copy made from what was read is stored, lines 77-109.
JobUpdateWrite(th) ==
    /\ threads[th].pc = "write"
    /\ LET reminder == The(threads[th].read)
       IN  /\ reminders_store' = WriteUpdate(reminders_store, reminder,
                    UpdateData(reminder, None, None, Some(FALSE), None))
           /\ hist' = HistOnFire(hist, {reminder.id})
    /\ threads' = SetThread(th, [threads[th] EXCEPT
                      !.pc = IF Tail(threads[th].due) = <<>> THEN "end" ELSE "read",
                      !.due = Tail(@),
                      !.read = None])
    /\ UNCHANGED <<now, next_id, fetched_emails_store, processed_email_ids, running,
                   jobs, instances, config, handler, sync_log, cycle_log,
                   lifecycle_log, flight_log, call_log>>

JobEnd(th) ==
    /\ threads[th].pc = "end"
    /\ JobReturn(th, "finished")
    /\ UNCHANGED <<now, reminders_store, next_id, fetched_emails_store,
                   processed_email_ids, running, jobs, config, handler, hist,
                   sync_log, lifecycle_log, call_log>>

\* SpecConc: the application is up; the cycle's steps interleave with the
\* timer, the start/stop calls and the handlers that add and delete.
NextConc ==
    \/ AdvanceClock
    \/ AddReminder(Utc(0), None, Some("ping"))
    \/ \E id \in ReminderIds : DeleteReminder(id)
    \/ StartSchedulerTasks
    \/ StopSchedulerTasks
    \/ TimerSkip
    \/ \E th \in Threads :
          \/ JobSubmit(th)
          \/ \E svc \in ServiceKinds : JobObtain(th, svc)
          \/ \E env \in NoMailEnvs : JobSync(th, env)
          \/ JobScan(th)
          \/ JobUpdateRead(th)
          \/ JobUpdateWrite(th)
          \/ JobEnd(th)
SpecConc == InitStarted /\ [][NextConc]_vars

\* SpecOrder: the cycle's steps with mail arriving, and reminders added
\* between the steps.
NextOrder ==
    \/ AddReminder(Utc(0), None, Some("ping"))
    \/ \E th \in Threads :
          \/ JobSubmit(th)
          \/ \E svc \in ServiceKinds : JobObtain(th, svc)
          \/ \E env \in MailEnvs : JobSync(th, env)
          \/ JobScan(th)
          \/ JobUpdateRead(th)
          \/ JobUpdateWrite(th)
          \/ JobEnd(th)
SpecOrder == InitStarted /\ [][NextOrder]_vars

(***************************************************************************)
(* check_due_reminders step by step. "for reminder in                      *)
(* _reminders_store.values()" makes an iterator that remembers the size of *)
(* the dict; each next() raises RuntimeError ("dictionary changed size     *)
(* during iteration") when the size is another one by then, and otherwise  *)
(* yields the next entry. The thread's record gets the fields              *)
(*   now0  the clock as line 125 read it                                   *)
(*   len0  the size the iterator remembers                                 *)
(*   pos   the entries the iterator has yielded                            *)
(*   snap  due_reminders, the Reminder objects appended so far             *)
(* and call_log holds the store as it was when the scan began. The         *)
(* RuntimeError leaves check_due_reminders and is caught at line 75 of     *)
(* scheduler_service: the loop of lines 67-72 is not entered.              *)
(***************************************************************************)
JobIterBegin(th) ==
    /\ threads[th].pc = "scan"
    /\ threads' = SetThread(th, [pc |-> "iter", mail |-> threads[th].mail,
                                 due |-> <<>>, read |-> None,
                                 now0 |-> now, len0 |-> Len(reminders_store),
                                 pos |-> 0, snap |-> <<>>])
    /\ call_log' = [op |-> "scan", start |-> reminders_store, now0 |-> now,
                    raised |-> FALSE]
    /\ UNCHANGED <<now, reminders_store, next_id, fetched_emails_store,
                   processed_email_ids, running, jobs, instances, config, handler,
                   hist, sync_log, cycle_log, lifecycle_log, flight_log>>

JobIterNext(th) ==
    /\ threads[th].pc = "iter"
    /\ LET it == threads[th]
       IN  IF Len(reminders_store) # it.len0
           THEN \* RuntimeError
                /\ threads' = SetThread(th, [it EXCEPT !.pc = "end"])
                /\ call_log' = [call_log EXCEPT !.raised = TRUE]
                /\ UNCHANGED hist
           ELSE IF it.pos = it.len0
           THEN \* StopIteration: check_due_reminders returns due_reminders
                /\ threads' = SetThread(th, [it EXCEPT
                        !.pc = IF it.snap = <<>> THEN "end" ELSE "read",
                        !.due = [i \in 1..Len(it.snap) |-> it.snap[i].id]])
                /\ hist' = HistOnPass(hist, reminders_store, it.now0)
                /\ UNCHANGED call_log
           ELSE LET reminder == reminders_store[it.pos + 1]
                IN  /\ threads' = SetThread(th, [it EXCEPT
                            !.pos = @ + 1,
                            !.snap = IF IsDue(reminder, Utc(it.now0))
                                     THEN Append(@, reminder) ELSE @])
                    /\ UNCHANGED <<hist, call_log>>
    /\ UNCHANGED <<now, reminders_store, next_id, fetched_emails_store,
                   processed_email_ids, running, jobs, instances, config, handler,
                   sync_log, cycle_log, lifecycle_log, flight_log>>

\* SpecRace: no mail service is configured; the request handlers add,
\* snooze and delete between the steps of the cycle, each handler call
\* uninterrupted.
NoService == [svc |-> "unconfigured", raised |-> FALSE, emails |-> <<>>]
NextRace ==
    \/ AdvanceClock
    \/ AddReminder(Utc(0), None, Some("ping"))
    \/ \E id \in ReminderIds : UpdateReminder(id, None, None, None, Some(Utc(MaxTime)))
    \/ \E id \in ReminderIds : DeleteReminder(id)
    \/ \E th \in Threads :
          \/ JobSubmit(th)
          \/ JobObtain(th, "unconfigured")
          \/ JobSync(th, NoService)
          \/ JobIterBegin(th)
          \/ JobIterNext(th)
          \/ JobUpdateRead(th)
          \/ JobUpdateWrite(th)
          \/ JobEnd(th)
SpecRace == InitStarted /\ [][NextRace]_vars

\* SpecStall: the mail service is configured and the network may take any
\* time to answer, or never answer. The executor's thread, once it has the
\* job, is scheduled fairly: a step of the job that stays possible is taken.
\* Nothing is assumed of the timer, the handlers or the network.
JobRuns(th) ==
    \/ JobObtain(th, "microsoft_graph")
    \/ JobFetchBlock(th)
    \/ JobScan(th)
    \/ JobUpdateRead(th)
    \/ JobUpdateWrite(th)
    \/ JobEnd(th)
NextStall ==
    \/ AdvanceClock
    \/ AddReminder(Utc(0), None, Some("ping"))
    \/ TimerSkip
    \/ \E th \in Threads :
          \/ JobSubmit(th)
          \/ JobObtain(th, "microsoft_graph")
          \/ JobFetchBlock(th)
          \/ \E env \in NoMailEnvs : JobFetchReturn(th, env)
          \/ JobScan(th)
          \/ JobUpdateRead(th)
          \/ JobUpdateWrite(th)
          \/ JobEnd(th)
SpecStall ==
    InitStarted /\ [][NextStall]_vars /\ \A th \in Threads : WF_vars(JobRuns(th))

(***************************************************************************)
(* Claims.                                                                 *)
(***************************************************************************)
Stored(id) == DictGet(reminders_store, id)
StoredIds == Keys(reminders_store)
\* The effective due time of the specification: snooze_until if set, else
\* reminder_time.
EffectiveDue(reminder) ==
    IF reminder.snooze_until # None THEN The(reminder.snooze_until)
    ELSE reminder.reminder_time

\* C1 (at-most-once firing): a reminder that a handler left active, and whose
\* due time had passed when a due-check pass ran, has been processed exactly
\* once and is inactive, however many passes followed (runs counts them, up
\* to MaxRuns) as long as no update_reminder call came in between; no
\* reminder is processed twice between two handler calls.
C1_AtMostOnceFiring ==
    \A id \in StoredIds :
        /\ hist[id].fired <= 1
        /\ (hist[id].armed /\ hist[id].runs >= 1)
              => (hist[id].fired = 1 /\ ~Stored(id).is_active)
\* Two passes ran over a reminder that was active and due: the first fired
\* it, the second found it inactive and skipped it.
C1_Witness ==
    \E id \in StoredIds :
        /\ hist[id].armed /\ hist[id].runs = 2
        /\ hist[id].fired = 1 /\ ~Stored(id).is_active

\* C3 (failure isolation), as claimed: whenever the mail-fetch capability
\* was unavailable or raised, while being obtained or while fetching, the
\* cycle still finished (did not raise out of the job) and its due-check
\* left no reminder both active and due.
C3_FailureIsolation ==
    cycle_log.mail \in {"unavailable", "obtain_raised", "fetch_raised"}
        => /\ cycle_log.status = "finished"
           /\ \A id \in StoredIds :
                ~(Stored(id).is_active /\ Stored(id).reminder_time.wall <= now)

\* C6: in every reachable state check_due_reminders does not raise and
\* returns, each once, exactly the stored reminders that are active and whose
\* effective due time is at or before now.
C6_DueSetExact ==
    LET chk == CheckDueReminders(reminders_store, now)
        returned == {chk.due[i].id : i \in 1..Len(chk.due)}
    IN  /\ ~chk.raised
        /\ Len(chk.due) = Cardinality(returned)
        /\ \A i \in 1..Len(chk.due) : chk.due[i] = Stored(chk.due[i].id)
        /\ returned = {id \in StoredIds :
                          /\ Stored(id).is_active
                          /\ EffectiveDue(Stored(id)).tz = "utc"
                          /\ EffectiveDue(Stored(id)).wall <= now}
\* Two stored reminders, one snoozed to exactly now (returned), the other
\* active and not yet due (not returned).
C6_Witness ==
    LET chk == CheckDueReminders(reminders_store, now)
    IN  /\ Len(chk.due) = 1
        /\ chk.due[1].snooze_until = Some(Utc(now))
        /\ \E id \in StoredIds :
              Stored(id).is_active /\ Stored(id).reminder_time.wall > now

\* C7 (snooze overrides the due time): a reminder created with due time T0,
\* then snoozed to T1 with T1 < now < T0, is fired (processed once and left
\* inactive) by a due-check pass that runs after T1, also while T0 has not
\* been reached.
C7_SnoozeOverridesDue ==
    \A id \in StoredIds :
        ( /\ hist[id].snoozed # None
          /\ The(hist[id].snoozed).early # None
          /\ hist[id].runs >= 1 )
        => (hist[id].fired = 1 /\ ~Stored(id).is_active)
C7_Witness ==
    \E id \in StoredIds :
        /\ hist[id].snoozed # None
        /\ The(hist[id].snoozed).early # None
        /\ hist[id].req.wall < now
        /\ now < The(The(hist[id].snoozed).early)
        /\ hist[id].runs >= 1
        /\ hist[id].fired = 1 /\ ~Stored(id).is_active

\* C8: after update_reminder with snooze_until = T the reminder has
\* reminder_time = T and snooze_until = T and is active, whatever else the
\* call passed and whatever it was before, until a due-check pass at or after
\* T fires it; that pass does fire it, also when it had been fired before.
C8_SnoozeRewritesAndActivates ==
    \A id \in StoredIds :
        hist[id].snoozed # None =>
            /\ hist[id].fired = 0 =>
                  /\ Stored(id).reminder_time = AssumeUtc(hist[id].req)
                  /\ Stored(id).snooze_until = Some(AssumeUtc(hist[id].req))
                  /\ Stored(id).is_active
            /\ hist[id].runs >= 1 =>
                  (hist[id].fired = 1 /\ ~Stored(id).is_active)
\* A fired reminder was snoozed by a call that also passed is_active = False
\* and another reminder_time, and the next pass fired it again.
C8_Witness ==
    \E id \in StoredIds :
        /\ hist[id].snoozed # None
        /\ The(hist[id].snoozed).refire
        /\ The(hist[id].snoozed).conflict
        /\ hist[id].runs = 1
        /\ hist[id].fired = 1 /\ ~Stored(id).is_active

\* C9 (naive timestamps): every stored reminder_time and snooze_until is
\* timezone-aware and reads the wall-clock time the handler passed; a
\* reminder whose naive due time had passed when a due-check pass ran was
\* found due and fired.
C9_NaiveNormalisedToUtc ==
    \A id \in StoredIds :
        /\ Stored(id).reminder_time = Utc(hist[id].req.wall)
        /\ Stored(id).snooze_until \in {None, Some(Utc(hist[id].req.wall))}
        /\ (hist[id].armed /\ hist[id].runs >= 1)
              => (hist[id].fired = 1 /\ ~Stored(id).is_active)
\* A reminder added with a naive due time T, fired by the pass at T + 1.
C9_Witness ==
    \E id \in StoredIds :
        /\ hist[id].req = Naive(now - 1)
        /\ hist[id].snoozed = None
        /\ Stored(id).reminder_time = Utc(now - 1)
        /\ cycle_log.status = "finished"
        /\ hist[id].runs = 1 /\ hist[id].fired = 1 /\ ~Stored(id).is_active

\* C10 (end to end): when a cycle has finished and no handler has touched
\* the store since, no stored reminder is both active and due at the time of
\* that cycle, and every reminder a handler left active with a due time that
\* has passed was processed exactly once.
C10_CyclePostcondition ==
    cycle_log.status = "finished" =>
        \A id \in StoredIds :
            /\ ~(Stored(id).is_active /\ EffectiveDue(Stored(id)).wall <= now)
            /\ (hist[id].armed /\ hist[id].req.wall <= now) => hist[id].fired = 1
\* The only reminder ever added was due one second before the cycle, which
\* is the only pass that ran over it.
C10_Witness ==
    /\ cycle_log.status = "finished"
    /\ next_id = 2
    /\ Len(reminders_store) = 1
    /\ hist[1].req.wall = now - 1
    /\ hist[1].snoozed = None
    /\ hist[1].runs = 1 /\ hist[1].fired = 1
    /\ ~Stored(1).is_active

\* C2 (dedup idempotence): the count of the last merge is the number of ids
\* of its batch that no earlier cycle had processed (0 when all of them had
\* been seen), and the store holds exactly one message for every processed
\* id.
BatchIds(batch) == {batch[i].id : i \in 1..Len(batch)}
C2_DedupIdempotence ==
    /\ sync_log.added_count =
          Cardinality(BatchIds(sync_log.batch) \ sync_log.seen_before)
    /\ \A m \in processed_email_ids :
          Cardinality({i \in 1..Len(fetched_emails_store) :
                          fetched_emails_store[i].id = m}) = 1
    /\ Keys(fetched_emails_store) = processed_email_ids
\* A cycle whose batch held only ids an earlier cycle had stored.
C2_Witness ==
    /\ sync_log.batch # <<>>
    /\ BatchIds(sync_log.batch) \subseteq sync_log.seen_before
    /\ sync_log.added_count = 0
    /\ \A m \in BatchIds(sync_log.batch) :
          Cardinality({i \in 1..Len(fetched_emails_store) :
                          fetched_emails_store[i].id = m}) = 1

\* C4 (cycle exclusion): at most one thread executes the cycle, and the
\* executor's count of running instances is the number of such threads;
\* also after a tick was turned away, and after stop_scheduler_tasks() and
\* start_scheduler_tasks() were called while the cycle was executing.
C4_OneCycleAtATime ==
    /\ Cardinality(Executing) <= 1
    /\ instances = Cardinality(Executing)
\* A cycle still executing after a stop, a start and a tick that was skipped.
C4_Witness ==
    /\ Cardinality(Executing) = 1
    /\ running
    /\ flight_log.lifecycle = "restarted"
    /\ flight_log.skipped

C12_DueCheckReached ==
    \A th \in Threads : (threads[th].pc = "obtain") ~> (threads[th].pc = "end")

\* C13 (snooze_until is cleared only on request), as claimed: a reminder
\* that the last handler call for it snoozed to T still has snooze_until = T,
\* also after the due-check job has deactivated it.
C13_SnoozeKeptUnlessCleared ==
    \A id \in StoredIds :
        hist[id].snoozed # None =>
            Stored(id).snooze_until = Some(AssumeUtc(hist[id].req))

C15_ListOrderedByDueTime ==
    LET listed == GetAllReminders(reminders_store, FALSE)
    IN  \A i, j \in 1..Len(listed) :
            i < j => listed[i].reminder_time.wall <= listed[j].reminder_time.wall

\* C16 (delete): delete_reminder returns True exactly when the id was in
\* the store; afterwards the id is gone and every other reminder is stored
\* as it was, in the same order; a delete that follows a successful delete of
\* the same id returns False and leaves the store as it was.
C16_DeleteIdempotent ==
    call_log.op = "delete" =>
        /\ call_log.result = (call_log.id \in Keys(call_log.before))
        /\ call_log.id \notin StoredIds
        /\ reminders_store = SelectSeq(call_log.before,
                                       LAMBDA r : r.id # call_log.id)
        /\ call_log.again # None =>
              (~call_log.result /\ reminders_store = call_log.before)
\* The second of two deletes of a reminder that was inactive when the first
\* removed it, with another reminder left in the store.
C16_Witness ==
    /\ call_log.op = "delete"
    /\ call_log.again = Some(FALSE)
    /\ ~call_log.result
    /\ reminders_store = call_log.before
    /\ reminders_store # <<>>

\* C17 (not found): get_reminder and update_reminder called with an id that
\* is not in the store return None and leave the store as it was; called
\* with a stored id they return a reminder of that id.
C17_NotFoundIsNone ==
    call_log.op \in {"get", "update"} =>
        IF call_log.id \in Keys(call_log.before)
        THEN call_log.result # None /\ The(call_log.result).id = call_log.id
        ELSE call_log.result = None /\ reminders_store = call_log.before
\* update_reminder with a new due time, called for an id that is not in a
\* store that holds another reminder.
C17_Witness ==
    /\ call_log.op = "update"
    /\ call_log.id \notin Keys(call_log.before)
    /\ call_log.before # <<>>
    /\ call_log.result = None
    /\ reminders_store = call_log.before

\* C18 (order within a cycle): a cycle enters its due-check only by the step
\* that ends its mail sync, with the mail sync finished normally, skipped or
\* failed and caught; once in the due-check the cycle stays there until it
\* ends and changes nothing of the mail stores; while the cycle is in its
\* mail part no reminder is scanned or fired.
MailPart == {"obtain", "sync"}
DuePart == {"scan", "read", "write", "end"}
C18_SyncThenDueCheck ==
    [][\A th \in Threads :
          /\ (threads[th].pc \notin DuePart /\ threads'[th].pc \in DuePart)
                => /\ threads[th].pc = "sync"
                   /\ threads'[th].mail \in {"ok", "unavailable", "fetch_raised"}
          /\ threads[th].pc \in DuePart
                => /\ threads'[th].pc \in DuePart \cup {"idle"}
                   /\ fetched_emails_store' = fetched_emails_store
                   /\ processed_email_ids' = processed_email_ids
                   /\ sync_log' = sync_log
          /\ threads[th].pc \in MailPart
                => \A id \in ReminderIds :
                      /\ hist'[id].runs <= hist[id].runs
                      /\ hist'[id].fired <= hist[id].fired]_vars
\* A cycle that merged mail is in the middle of its due-check loop.
C18_Witness ==
    \E th \in Threads :
        /\ threads[th].pc = "write"
        /\ threads[th].mail = "ok"
        /\ sync_log.added_count > 0
        /\ fetched_emails_store # <<>>

\* C19 (stop): a cycle is started only while the scheduler is running and
\* the last lifecycle call was start_scheduler_tasks(), never between a
\* stop_scheduler_tasks() call and the next start; the stop call leaves the
\* scheduler stopped and touches neither the executing cycle nor the
\* executor's count of it.
C19_NoCycleAfterStop ==
    [][/\ instances' > instances
            => (running /\ lifecycle_log.last = "start")
       /\ (lifecycle_log' # lifecycle_log /\ lifecycle_log'.last = "stop")
            => /\ ~running'
               /\ threads' = threads
               /\ instances' = instances]_vars
\* stop_scheduler_tasks() has returned while a cycle is inside its
\* due-check loop, the scheduler is stopped and the cycle still counted.
C19_Witness ==
    /\ ~running
    /\ lifecycle_log.last = "stop"
    /\ flight_log.lifecycle = "stopped"
    /\ instances = 1
    /\ \E th \in Threads : threads[th].pc = "write"

\* C20 (configuration read when used): the limit a cycle passes to
\* fetch_emails is scheduler.fetchLimit of the configuration as it is when
\* the cycle runs, 25 when it is missing, and the batch is no longer than
\* that; the interval of a job that start_scheduler_tasks() registers is
\* scheduler.intervalMinutes of the configuration as it is then, 15 when it
\* is missing.
C20_ConfigReadEachCycle ==
    [][/\ (call_log' # call_log /\ call_log'.op = "cycle" /\ call_log'.top # None)
            => /\ The(call_log'.top) = IF config.fetchLimit = None
                                       THEN 25 ELSE The(config.fetchLimit)
               /\ Len(sync_log'.batch) <= The(call_log'.top)
       /\ Len(jobs') > Len(jobs)
            => jobs'[Len(jobs')].minutes = IF config.intervalMinutes = None
                                          THEN 15 ELSE The(config.intervalMinutes)]_vars
\* With no restart since the application came up, a cycle fetched with the
\* limit 1 that the configuration then held, and the next cycle, after the
\* key was removed, with 25; the job has the default interval.
C20_Witness ==
    /\ call_log.op = "cycle"
    /\ call_log.prev = Some(1)
    /\ call_log.top = Some(25)
    /\ config.fetchLimit = None
    /\ sync_log.batch # <<>>
    /\ lifecycle_log = [last |-> "start", n |-> 1]
    /\ Len(jobs) = 1 /\ jobs[1].minutes = 15

\* C21 (interval fixed at start): while the scheduler stays running, through
\* configuration changes, repeated start_scheduler_tasks() calls and cycles,
\* the registered job and its interval stay as they are; the call that takes
\* the scheduler from stopped to running registers one job whose interval is
\* scheduler.intervalMinutes of the configuration as it is at that call.
C21_IntervalFixedAtStart ==
    [][/\ (running /\ running') => jobs' = jobs
       /\ (~running /\ running')
            => /\ Len(jobs') = 1
               /\ jobs'[1].minutes = IF config.intervalMinutes = None
                                     THEN 15 ELSE The(config.intervalMinutes)]_vars
\* The job runs at the 1 minute read by a start that followed a stop; since
\* then the key was removed from the configuration and
\* start_scheduler_tasks() was called again.
C21_Witness ==
    /\ running
    /\ Len(jobs) = 1 /\ jobs[1].minutes = 1
    /\ config.intervalMinutes = None
    /\ lifecycle_log = [last |-> "start", n |-> 2]

\* C22 (identity fields): the ids in the store are pairwise distinct and
\* were all given by add_reminder; a reminder that stays in the store keeps
\* its created_at and its email_id through every step; the keys of the store
\* and their order change only by an add_reminder or a delete_reminder call,
\* never by update_reminder or a cycle.
StoreIds(store) == [i \in 1..Len(store) |-> store[i].id]
C22_IdentityFieldsFixed ==
    /\ [](/\ \A i, j \in 1..Len(reminders_store) :
                 i # j => reminders_store[i].id # reminders_store[j].id
          /\ StoredIds \subseteq 1..(next_id - 1))
    /\ [][/\ \A id \in Keys(reminders_store) \cap Keys(reminders_store') :
                 /\ DictGet(reminders_store', id).created_at
                        = DictGet(reminders_store, id).created_at
                 /\ DictGet(reminders_store', id).email_id
                        = DictGet(reminders_store, id).email_id
          /\ StoreIds(reminders_store') # StoreIds(reminders_store)
                => call_log'.op \in {"add", "delete"}]_vars
\* A reminder created at time 0 for the message m1 has since been
\* rescheduled, given another text, snoozed and fired by a cycle at time 2.
C22_Witness ==
    \E id \in StoredIds :
        /\ Stored(id).created_at = Utc(0)
        /\ Stored(id).email_id = Some("m1")
        /\ Stored(id).message = Some("pong")
        /\ Stored(id).reminder_time = Utc(MaxTime)
        /\ ~Stored(id).is_active
        /\ hist[id].fired > 0
        /\ now = MaxTime
        /\ call_log.op = "cycle"

\* C23 (no tearing), as claimed: a handler call is visible to the whole
\* due-check pass or to none of it, so the Reminder that the pass reads in
\* order to deactivate it is a Reminder that its scan returned.
C23_PassSeesOneVersion ==
    [][\A th \in Threads :
          (threads[th].pc = "read" /\ threads'[th].pc = "write")
            => \E i \in 1..Len(threads[th].snap) :
                  threads[th].snap[i] = The(threads'[th].read)]_vars

\* C28 (snooze not lost), as claimed: a reminder that a request handler
\* last snoozed to a time still in the future is active.
C28_SnoozeNotLost ==
    \A id \in StoredIds :
        (hist[id].snoozed # None /\ hist[id].req.wall > now)
            => Stored(id).is_active

\* C29 (no resurrection), as claimed: an id comes into the store only as the
\* new id of an add_reminder call.
C29_DeletedStaysDeleted ==
    [][\A id \in ReminderIds :
          (~HasKey(reminders_store, id) /\ HasKey(reminders_store', id))
            => (id = next_id /\ next_id' = next_id + 1)]_vars

\* C30 (scan on a snapshot), as claimed: when a cycle ends, every reminder
\* that was active and due when its scan began, is still stored and was not
\* updated by a handler since, is inactive.
C30_ScanSurvivesHandlers ==
    [][\A th \in Threads :
          (threads[th].pc = "end" /\ threads'[th].pc = "idle" /\ call_log.op = "scan")
            => \A i \in 1..Len(call_log.start) :
                  LET reminder == call_log.start[i]
                  IN  ( /\ IsDue(reminder, Utc(call_log.now0))
                        /\ HasKey(reminders_store', reminder.id)
                        /\ hist[reminder.id].snoozed = None )
                      => ~DictGet(reminders_store', reminder.id).is_active]_vars

\* C24 (nothing fetched): a cycle whose mail service is not available, whose
\* fetch fails or whose fetch returns no message finishes, counts no added
\* message and leaves the message store and the processed ids as they were.
C24_NothingFetchedNothingChanged ==
    [][( \/ cycle_log'.mail \in {"unavailable", "fetch_raised"}
         \/ (cycle_log'.mail = "ok" /\ sync_log'.batch = <<>>) )
        => /\ cycle_log'.status = "finished"
           /\ sync_log'.added_count = 0
           /\ fetched_emails_store' = fetched_emails_store
           /\ processed_email_ids' = processed_email_ids]_vars
\* A cycle whose fetch failed, after an earlier cycle had stored messages.
C24_Witness ==
    /\ cycle_log = [status |-> "finished", mail |-> "fetch_raised"]
    /\ sync_log.added_count = 0
    /\ Len(fetched_emails_store) = 2
    /\ Keys(fetched_emails_store) = processed_email_ids

\* C25 (store and cache agree and grow): the ids of the stored messages are
\* the processed ids, and no step takes an id out of either.
C25_StoreMatchesCache ==
    /\ [](Keys(fetched_emails_store) = processed_email_ids)
    /\ [][/\ Keys(fetched_emails_store) \subseteq Keys(fetched_emails_store')
          /\ processed_email_ids \subseteq processed_email_ids'
          /\ Len(fetched_emails_store) <= Len(fetched_emails_store')]_vars
\* A second merging cycle added one id to the one the first had stored.
C25_Witness ==
    /\ Cardinality(sync_log.seen_before) = 1
    /\ sync_log.added_count = 1
    /\ Cardinality(processed_email_ids) = 2
    /\ Len(fetched_emails_store) = 2

\* C26 (first-seen version wins): no step changes the message stored for an
\* id, and the count of a merge is the number of ids the store gained, so an
\* id is counted once however often the batch holds it.
C26_FirstSeenWins ==
    [][/\ \A m \in Keys(fetched_emails_store) :
             /\ m \in Keys(fetched_emails_store')
             /\ DictGet(fetched_emails_store', m) = DictGet(fetched_emails_store, m)
       /\ sync_log' # sync_log
            => sync_log'.added_count
                 = Cardinality(Keys(fetched_emails_store') \ Keys(fetched_emails_store))]_vars
\* The last batch held one id twice, in two versions: the first is stored,
\* and the id was counted once.
C26_Witness ==
    /\ Len(sync_log.batch) = 2
    /\ sync_log.batch[1].id = sync_log.batch[2].id
    /\ sync_log.batch[1].ver # sync_log.batch[2].ver
    /\ sync_log.added_count = 1
    /\ DictGet(fetched_emails_store, sync_log.batch[1].id) = sync_log.batch[1]

====
